---------------------------- MODULE Spec2Model ----------------------------
(***************************************************************************)
(* BURST: configuration space of a circular robot in a polygonal           *)
(* enclosure (WallSpace / ConfigurationSpace), and the movement model that *)
(* queries it.                                                             *)
(*                                                                         *)
(* Geometry is exact.  Enclosure vertices, query points and direction      *)
(* vectors are integers; a point computed by a query is a pair of numbers  *)
(* (a + b*sqrt(root))/den, the "one-root" numbers of the circle/segment    *)
(* traits the code uses (CurvedTraits::Point_2).                           *)
(***************************************************************************)
EXTENDS Integers, Sequences, FiniteSets

(***************************************************************************)
(* Bounds of the model.                                                    *)
(***************************************************************************)
\* query points are drawn from the grid 0..MaxCoord x 0..MaxCoord
MaxCoord == 6

\* std::optional and std::unique_ptr values: the empty set is nullopt / nullptr
NONE == {}

Some(v) == {v}

Value(o) == CHOOSE v \in o : TRUE

(***************************************************************************)
(* Integer helpers.                                                        *)
(***************************************************************************)
Abs(x) == IF x < 0 THEN -x ELSE x

Sign(x) == IF x < 0 THEN -1 ELSE IF x > 0 THEN 1 ELSE 0

Min2(a, b) == IF a <= b THEN a ELSE b

Max2(a, b) == IF a >= b THEN a ELSE b

RECURSIVE Gcd(_, _)
Gcd(a, b) == IF b = 0 THEN a ELSE Gcd(b, a % b)

\* sign of p + q*sqrt(D), D >= 0
SignRoot(p, q, D) ==
    IF q = 0 \/ D = 0 THEN Sign(p)
    ELSE IF p = 0 THEN Sign(q)
    ELSE IF Sign(p) = Sign(q) THEN Sign(p)
    ELSE IF p * p > q * q * D THEN Sign(p)
    ELSE IF p * p < q * q * D THEN Sign(q)
    ELSE 0

\* sign of a + b*sqrt(D1) + c*sqrt(D2)
SignTwoRoot(a, b, D1, c, D2) ==
    IF c = 0 \/ D2 = 0 THEN SignRoot(a, b, D1)
    ELSE IF b = 0 \/ D1 = 0 THEN SignRoot(a, c, D2)
    ELSE IF D1 = D2 THEN SignRoot(a, b + c, D1)
    ELSE LET sx == SignRoot(a, b, D1)      \* X = a + b*sqrt(D1)
             sy == -Sign(c)                \* Y = -c*sqrt(D2); the sign of X - Y
             \* X^2 - Y^2 = a^2 + b^2*D1 - c^2*D2 + 2ab*sqrt(D1)
             sq == SignRoot(a * a + b * b * D1 - c * c * D2, 2 * a * b, D1)
         IN  IF sx > sy THEN 1
             ELSE IF sx < sy THEN -1
             ELSE IF sx = 0 THEN 0
             ELSE IF sx > 0 THEN sq ELSE -sq

(***************************************************************************)
(* Parameters along a probe: t = (p + q*sqrt(D))/A with A > 0.             *)
(***************************************************************************)
\* the largest k with k*k dividing D
SquarePart(D) ==
    LET S == {k \in 1..D : k * k <= D /\ D % (k * k) = 0}
    IN  CHOOSE k \in S : \A j \in S : j <= k

\* canonical form: lowest terms, square-free D, no root when the value is rational
NormT(p, q, D, A) ==
    LET rat(n, m) == LET g == Gcd(Abs(n), m) IN [p |-> n \div g, q |-> 0, D |-> 0, A |-> m \div g]
    IN  IF q = 0 \/ D = 0 THEN rat(p, A)
        ELSE LET k == SquarePart(D)
                 D1 == D \div (k * k)
                 q1 == q * k
             IN  IF D1 = 1 THEN rat(p + q1, A)
                 ELSE LET g == Gcd(Gcd(Abs(p), Abs(q1)), A)
                      IN  [p |-> p \div g, q |-> q1 \div g, D |-> D1, A |-> A \div g]

RatT(n, m) == NormT(n * Sign(m), 0, 0, Abs(m))

SignT(t) == SignRoot(t.p, t.q, t.D)

\* sign of t1 - t2
CmpT(t1, t2) ==
    SignTwoRoot(t1.p * t2.A - t2.p * t1.A, t1.q * t2.A, t1.D, -(t2.q * t1.A), t2.D)

(***************************************************************************)
(* Points.  An integer point is a pair <<x, y>>; a computed point is a     *)
(* record: x = (xa + xb*sqrt(root))/den, y = (ya + yb*sqrt(root))/den.     *)
(***************************************************************************)
NormPoint(xa, xb, ya, yb, root, den) ==
    LET irr == root # 0 /\ (xb # 0 \/ yb # 0)
        g == Gcd(Gcd(Gcd(Abs(xa), Abs(ya)), Gcd(Abs(xb), Abs(yb))), den)
    IN  [xa |-> xa \div g, xb |-> IF irr THEN xb \div g ELSE 0,
         ya |-> ya \div g, yb |-> IF irr THEN yb \div g ELSE 0,
         root |-> IF irr THEN root ELSE 0, den |-> den \div g]

Pt(v) == [xa |-> v[1], xb |-> 0, ya |-> v[2], yb |-> 0, root |-> 0, den |-> 1]

\* the point s + t*d of the line through the integer point s with integer direction d
PointAt(s, d, t) ==
    NormPoint(s[1] * t.A + d[1] * t.p, d[1] * t.q, s[2] * t.A + d[2] * t.p, d[2] * t.q, t.D, t.A)

Cross(u, v) == u[1] * v[2] - u[2] * v[1]

Dot(u, v) == u[1] * v[1] + u[2] * v[2]

Sub(u, v) == <<u[1] - v[1], u[2] - v[2]>>


(***************************************************************************)
(* Enclosure polygons: sequences of integer vertices.                      *)
(***************************************************************************)
Edges(poly) ==
    [i \in 1..Len(poly) |-> <<poly[i], poly[IF i = Len(poly) THEN 1 ELSE i + 1]>>]

\* the integer point p lies on the closed segment [a, b]
OnSegInt(p, a, b) ==
    /\ Cross(Sub(p, a), Sub(b, a)) = 0
    /\ Min2(a[1], b[1]) <= p[1] /\ p[1] <= Max2(a[1], b[1])
    /\ Min2(a[2], b[2]) <= p[2] /\ p[2] <= Max2(a[2], b[2])

\* the closed segments [a, b] and [c, d] share a point
SegsIntersect(a, b, c, d) ==
    LET o1 == Sign(Cross(Sub(b, a), Sub(c, a)))
        o2 == Sign(Cross(Sub(b, a), Sub(d, a)))
        o3 == Sign(Cross(Sub(d, c), Sub(a, c)))
        o4 == Sign(Cross(Sub(d, c), Sub(b, c)))
    IN  \/ (o1 * o2 < 0 /\ o3 * o4 < 0)
        \/ OnSegInt(c, a, b) \/ OnSegInt(d, a, b)
        \/ OnSegInt(a, c, d) \/ OnSegInt(b, c, d)

\* CGAL::is_simple_2: edges meet only at the vertex two consecutive edges share
is_simple_2(poly) ==
    LET n == Len(poly)
        E == Edges(poly)
        adjacent(i, j) == j = i + 1 \/ (i = 1 /\ j = n)
    IN  \A i \in 1..n : \A j \in (i + 1)..n :
            IF n = 3 \/ adjacent(i, j)
            THEN \* e_i = (a, b), e_j = (b, c) in cyclic order
                 LET first == IF j = i + 1 THEN i ELSE j
                     second == IF j = i + 1 THEN j ELSE i
                     a == E[first][1]
                     b == E[first][2]
                     c == E[second][2]
                 IN  /\ a # b /\ b # c
                     /\ ~OnSegInt(c, a, b)
                     /\ ~OnSegInt(a, b, c)
            ELSE ~SegsIntersect(E[i][1], E[i][2], E[j][1], E[j][2])

RECURSIVE SumArea(_, _)
SumArea(poly, i) ==
    IF i > Len(poly) THEN 0
    ELSE Cross(poly[i], poly[IF i = Len(poly) THEN 1 ELSE i + 1]) + SumArea(poly, i + 1)

\* CGAL::orientation_2 of a simple polygon: the sign of its signed area
COUNTERCLOCKWISE == "COUNTERCLOCKWISE"
CLOCKWISE == "CLOCKWISE"
COLLINEAR == "COLLINEAR"

orientation_2(poly) ==
    LET s == Sign(SumArea(poly, 1))
    IN  IF s > 0 THEN COUNTERCLOCKWISE ELSE IF s < 0 THEN CLOCKWISE ELSE COLLINEAR

(***************************************************************************)
(* The enclosures a caller may pass to WallSpace::create, and the radii a  *)
(* caller may pass to constructConfigurationSpace.                         *)
(***************************************************************************)
Square6 == << <<0, 0>>, <<6, 0>>, <<6, 6>>, <<0, 6>> >>

Square6CW == << <<0, 6>>, <<6, 6>>, <<6, 0>>, <<0, 0>> >>

Square4 == << <<0, 0>>, <<4, 0>>, <<4, 4>>, <<0, 4>> >>

Rect6x2 == << <<0, 0>>, <<6, 0>>, <<6, 2>>, <<0, 2>> >>

LShape == << <<0, 0>>, <<8, 0>>, <<8, 4>>, <<4, 4>>, <<4, 8>>, <<0, 8>> >>

UThin == << <<0, 0>>, <<7, 0>>, <<7, 4>>, <<4, 4>>, <<4, 1>>, <<3, 1>>, <<3, 4>>, <<0, 4>> >>

UFat == << <<0, 0>>, <<7, 0>>, <<7, 5>>, <<4, 5>>, <<4, 3>>, <<3, 3>>, <<3, 5>>, <<0, 5>> >>

TwoPoints == << <<0, 0>>, <<6, 0>> >>

BowTie == << <<0, 0>>, <<6, 6>>, <<6, 0>>, <<0, 6>> >>

Flat == << <<0, 0>>, <<3, 0>>, <<6, 0>> >>

Square2 == << <<0, 0>>, <<2, 0>>, <<2, 2>>, <<0, 2>> >>

LShort == << <<0, 0>>, <<6, 0>>, <<6, 1>>, <<3, 1>>, <<3, 6>>, <<0, 6>> >>

RepeatedPoint == << <<0, 0>>, <<6, 0>>, <<6, 6>>, <<0, 6>>, <<0, 6>> >>

Enclosures ==
    {Square6, Square6CW, Square4, Rect6x2, LShape, UThin, UFat, TwoPoints, BowTie, Flat,
     Square2, LShort, RepeatedPoint}

\* enclosures with an edge of irrational length: right triangles with legs on the axes
Triangle6 == << <<0, 0>>, <<6, 0>>, <<0, 6>> >>

Triangle8 == << <<0, 0>>, <<8, 0>>, <<0, 8>> >>

DiagonalEnclosures == {Triangle6, Triangle8}

Radii == {1, 2}

\* a factory that does not test the polygon for simplicity
WallSpace_create_unchecked(points) ==
    IF Len(points) <= 2 THEN NONE
    ELSE IF orientation_2(points) = COLLINEAR THEN NONE
    ELSE Some(points)

\* WallSpace::create: the polygon, or nullopt
WallSpace_create(points) ==
    IF Len(points) <= 2 THEN NONE
    ELSE IF ~is_simple_2(points) THEN NONE
    ELSE IF orientation_2(points) = COLLINEAR THEN NONE
    ELSE Some(points)

(***************************************************************************)
(* Curves of a configuration space boundary.  A curve runs from a to b;    *)
(* a segment is straight, an arc is the quarter of the circle of centre c  *)
(* and radius r between a and b.                                           *)
(***************************************************************************)
Segment(a, b) == [kind |-> "seg", a |-> a, b |-> b, c |-> <<0, 0>>, r |-> 0]

Arc(a, b, c, r) == [kind |-> "arc", a |-> a, b |-> b, c |-> c, r |-> r]

Rectangle(x0, y0, x1, y1) ==
    << Segment(<<x0, y0>>, <<x1, y0>>), Segment(<<x1, y0>>, <<x1, y1>>),
       Segment(<<x1, y1>>, <<x0, y1>>), Segment(<<x0, y1>>, <<x0, y0>>) >>

SetMax(S) == CHOOSE m \in S : \A x \in S : x <= m

SetMin(S) == CHOOSE m \in S : \A x \in S : m <= x

\* the least integer whose square is at least n
CeilSqrt(n) == CHOOSE m \in 0..n : m * m >= n /\ \A k \in 0..n : k * k >= n => m <= k

(***************************************************************************)
(* The offset of a wall of irrational length has no rational supporting    *)
(* line, and the curves of the traits have rational coefficients: the      *)
(* inset operation replaces such an offset edge by an approximation within *)
(* its tolerance that stays on the inner side.  For the right triangle     *)
(* (0,0),(K,0),(0,K) the exact offset of the hypotenuse is the line        *)
(* x + y = K - r*sqrt(2); the approximation is held at the resolution of   *)
(* the coordinates of the model, the line x + y = K - CeilSqrt(2*r*r).     *)
(***************************************************************************)
approximated_triangle_inset(K, r) ==
    LET c == CeilSqrt(2 * r * r)
        far == K - c - r
    IN  IF far <= r THEN << >>
        ELSE << << Segment(<<r, r>>, <<far, r>>), Segment(<<far, r>>, <<r, far>>),
                   Segment(<<r, far>>, <<r, r>>) >> >>

(***************************************************************************)
(* CGAL::approximated_inset_2 for the enclosures of the model: a box       *)
(* [0,W]x[0,H] with at most one rectangular notch cut from its top side    *)
(* (an L when the notch reaches the right side, a U otherwise).  The inset *)
(* is the set of points of the box at distance >= r from every wall: the   *)
(* box shrunk by r, less everything closer than r to the notch.  Every     *)
(* wall is axis-parallel, so the offset edges are exact and each reflex    *)
(* vertex contributes a quarter circle.  The result is the sequence of     *)
(* closed curves bounding the components of the inset.                     *)
(***************************************************************************)
\* an inset that keeps the box shrunk by r however thin it is
approximated_inset_2_thin(poly, r) ==
    LET V == {poly[i] : i \in 1..Len(poly)}
        W == SetMax({v[1] : v \in V})
        H == SetMax({v[2] : v \in V})
    IN  IF W - r < r \/ H - r < r THEN << >> ELSE << Rectangle(r, r, W - r, H - r) >>

\* an inset by the diameter of the robot
approximated_inset_2_diameter(poly, r) ==
    LET V == {poly[i] : i \in 1..Len(poly)}
        W == SetMax({v[1] : v \in V})
        H == SetMax({v[2] : v \in V})
    IN  IF W - 2 * r <= 2 * r \/ H - 2 * r <= 2 * r THEN << >>
        ELSE << Rectangle(2 * r, 2 * r, W - 2 * r, H - 2 * r) >>

\* CGAL::approximated_offset_2 of the box: the walls moved outward by r, with a
\* quarter circle around each corner
approximated_offset_2(poly, r) ==
    LET V == {poly[i] : i \in 1..Len(poly)}
        W == SetMax({v[1] : v \in V})
        H == SetMax({v[2] : v \in V})
    IN  << << Segment(<<0, -r>>, <<W, -r>>), Arc(<<W, -r>>, <<W + r, 0>>, <<W, 0>>, r),
              Segment(<<W + r, 0>>, <<W + r, H>>), Arc(<<W + r, H>>, <<W, H + r>>, <<W, H>>, r),
              Segment(<<W, H + r>>, <<0, H + r>>), Arc(<<0, H + r>>, <<-r, H>>, <<0, H>>, r),
              Segment(<<-r, H>>, <<-r, 0>>), Arc(<<-r, 0>>, <<0, -r>>, <<0, 0>>, r) >> >>

approximated_inset_2(poly, r) ==
    LET V == {poly[i] : i \in 1..Len(poly)}
        W == SetMax({v[1] : v \in V})
        H == SetMax({v[2] : v \in V})
        inner == {v \in V : 0 < v[1] /\ v[1] < W /\ 0 < v[2] /\ v[2] < H}
        nx0 == SetMin({v[1] : v \in inner})
        nx1 == IF Cardinality(inner) = 2 THEN SetMax({v[1] : v \in inner}) ELSE W
        ny0 == SetMin({v[2] : v \in inner})
        ix0 == r
        iy0 == r
        ix1 == W - r
        iy1 == H - r
        lw == (nx0 - r) - ix0          \* width of the part left of the notch
        rw == ix1 - (nx1 + r)          \* width of the part right of the notch
        bh == (ny0 - r) - iy0          \* height of the part below the notch
        flushRight == nx1 >= ix1
        dist2(p) == LET dx == Max2(Max2(nx0 - p[1], p[1] - nx1), 0)
                        dy == Max2(ny0 - p[2], 0)
                    IN  dx * dx + dy * dy
        clean(loop) == SelectSeq(loop, LAMBDA e : e.a # e.b)
        leftArc == Arc(<<nx0, ny0 - r>>, <<nx0 - r, ny0>>, <<nx0, ny0>>, r)
        rightArc == Arc(<<nx1 + r, ny0>>, <<nx1, ny0 - r>>, <<nx1, ny0>>, r)
        leftPart ==
            IF lw > 0
            THEN << Segment(<<nx0 - r, ny0>>, <<nx0 - r, iy1>>),
                    Segment(<<nx0 - r, iy1>>, <<ix0, iy1>>),
                    Segment(<<ix0, iy1>>, <<ix0, iy0>>) >>
            ELSE << Segment(<<ix0, ny0>>, <<ix0, iy0>>) >>
        rightPart ==
            IF rw > 0
            THEN << Segment(<<ix1, iy0>>, <<ix1, iy1>>),
                    Segment(<<ix1, iy1>>, <<nx1 + r, iy1>>),
                    Segment(<<nx1 + r, iy1>>, <<nx1 + r, ny0>>) >>
            ELSE << Segment(<<ix1, iy0>>, <<ix1, ny0>>) >>
    IN  IF Len(poly) = 3 THEN approximated_triangle_inset(W, r)
        ELSE IF ix1 <= ix0 \/ iy1 <= iy0 THEN << >>
        ELSE IF inner = {} THEN << Rectangle(ix0, iy0, ix1, iy1) >>
        ELSE IF \A p \in {<<ix0, iy0>>, <<ix1, iy0>>, <<ix1, iy1>>, <<ix0, iy1>>} : dist2(p) <= r * r
             THEN << >>
        ELSE IF ny0 <= iy0
             THEN (IF lw > 0 THEN << Rectangle(ix0, iy0, nx0 - r, iy1) >> ELSE << >>)
                  \o (IF rw > 0 THEN << Rectangle(nx1 + r, iy0, ix1, iy1) >> ELSE << >>)
        ELSE IF bh = 0
             THEN << clean(<< Segment(<<ix0, iy0>>, <<nx0, iy0>>), leftArc >> \o leftPart) >>
                  \o (IF flushRight THEN << >>
                      ELSE << clean(<< Segment(<<nx1, iy0>>, <<ix1, iy0>>) >> \o rightPart
                                    \o << rightArc >>) >>)
        ELSE << clean(<< Segment(<<ix0, iy0>>, <<ix1, iy0>>) >>
                      \o (IF flushRight
                          THEN << Segment(<<ix1, iy0>>, <<ix1, ny0 - r>>),
                                  Segment(<<ix1, ny0 - r>>, <<nx0, ny0 - r>>) >>
                          ELSE rightPart
                               \o << rightArc, Segment(<<nx1, ny0 - r>>, <<nx0, ny0 - r>>) >>)
                      \o << leftArc >> \o leftPart) >>

\* the vertices of a closed curve, and the orientation of the polygon they span
Vertices(shape) == [i \in 1..Len(shape) |-> shape[i].a]

ShapeOrientation(shape) == orientation_2(Vertices(shape))

\* CurvilinearPolygon2D::reverse_orientation
RECURSIVE reverse_orientation(_)
reverse_orientation(shape) ==
    IF shape = << >> THEN << >>
    ELSE LET e == Head(shape)
         IN  reverse_orientation(Tail(shape)) \o << [e EXCEPT !.a = e.b, !.b = e.a] >>

\* ConfigurationSpace::create: the object with both caches empty
ConfigurationSpace_create(shape) ==
    [configuration_shape |-> shape, bounding_box |-> NONE, polygon_set |-> NONE]

\* the curves as the inset operation writes them to inset_results: the code does
\* not fix the orientation in which a curve is emitted, so either one is possible
Orientations == {COUNTERCLOCKWISE, CLOCKWISE}

emitted_inset_2(poly, r, emitted) ==
    LET curves == approximated_inset_2(poly, r)
    IN  [i \in 1..Len(curves) |->
            IF ShapeOrientation(curves[i]) = emitted THEN curves[i]
            ELSE reverse_orientation(curves[i])]

\* a construction that keeps the curve in the orientation it was emitted in
constructConfigurationSpace_as_emitted(wall_shape, robot_radius, emitted) ==
    LET inset_results == emitted_inset_2(wall_shape, robot_radius, emitted)
    IN  IF Len(inset_results) # 1 THEN NONE
        ELSE Some(ConfigurationSpace_create(inset_results[1]))

\* a construction that only rejects an empty inset and keeps the first curve
constructConfigurationSpace_first(wall_shape, robot_radius, emitted) ==
    LET inset_results == emitted_inset_2(wall_shape, robot_radius, emitted)
    IN  IF Len(inset_results) = 0 THEN NONE
        ELSE Some(ConfigurationSpace_create(inset_results[1]))

\* WallSpace::constructConfigurationSpace: null unless the inset is one closed curve
constructConfigurationSpace(wall_shape, robot_radius, emitted) ==
    LET inset_results == emitted_inset_2(wall_shape, robot_radius, emitted)
    IN  IF Len(inset_results) # 1 THEN NONE
        ELSE LET inset == inset_results[1]
                 oriented == IF ShapeOrientation(inset) # COUNTERCLOCKWISE
                             THEN reverse_orientation(inset) ELSE inset
             IN  Some(ConfigurationSpace_create(oriented))

\* ConfigurationSpace::orientation
orientation(cs) == ShapeOrientation(cs.configuration_shape)

(***************************************************************************)
(* The Robot that a wall space hands the configuration space to.  A robot  *)
(* is its radius and the configuration_environment it owns.                *)
(***************************************************************************)
\* Robot::getRadius
getRadius(a_robot) == a_robot.radius

\* Robot::setConfigurationEnvironment: the robot owns the configuration space given
setConfigurationEnvironment(a_robot, config_environment) ==
    [a_robot EXCEPT !.configuration_environment = config_environment]

\* a generation that hands the robot whatever the construction returned
generateConfigurationGeometry_set(wall_shape, a_robot, emitted) ==
    LET config_geometry == constructConfigurationSpace(wall_shape, getRadius(a_robot), emitted)
    IN  [robot |-> setConfigurationEnvironment(a_robot, config_geometry),
         generated |-> config_geometry # NONE]

\* WallSpace::generateConfigurationGeometry(robot): the robot after the call, and
\* whether the optional returned holds a value
generateConfigurationGeometry(wall_shape, a_robot, emitted) ==
    LET config_geometry == constructConfigurationSpace(wall_shape, getRadius(a_robot), emitted)
    IN  IF config_geometry = NONE THEN [robot |-> a_robot, generated |-> FALSE]
        ELSE [robot |-> setConfigurationEnvironment(a_robot, config_geometry),
              generated |-> TRUE]


(***************************************************************************)
(* Queries on a configuration space.                                       *)
(***************************************************************************)
\* CurvilinearPolygon2D::bbox: the endpoints of the curves; an arc reaches the
\* bottom (top) of its circle when it lies in the lower (upper) half
bbox_of(shape) ==
    LET xs == UNION {{shape[i].a[1], shape[i].b[1]} : i \in 1..Len(shape)}
        ys == UNION {LET e == shape[i]
                     IN  {e.a[2], e.b[2]} \cup
                         (IF e.kind = "arc"
                          THEN (IF e.a[2] <= e.c[2] /\ e.b[2] <= e.c[2]
                                THEN {e.c[2] - e.r} ELSE {e.c[2] + e.r})
                          ELSE {}) : i \in 1..Len(shape)}
    IN  [xmin |-> SetMin(xs), xmax |-> SetMax(xs), ymin |-> SetMin(ys), ymax |-> SetMax(ys)]

\* ConfigurationSpace::bbox(): computed on first use, then cached
bbox(cs) ==
    IF cs.bounding_box = NONE THEN bbox_of(cs.configuration_shape) ELSE Value(cs.bounding_box)

WithBBox(cs) == [cs EXCEPT !.bounding_box = Some(bbox(cs))]

\* ConfigurationSpace::set(): the polygon set holding the shape, built on first use
set(cs) ==
    IF cs.polygon_set = NONE THEN cs.configuration_shape ELSE Value(cs.polygon_set)

WithSet(cs) == [cs EXCEPT !.polygon_set = Some(set(cs))]

\* the integer point p lies on the curve e
OnCurve(p, e) ==
    IF e.kind = "seg" THEN OnSegInt(p, e.a, e.b)
    ELSE /\ Dot(Sub(p, e.c), Sub(p, e.c)) = e.r * e.r
         /\ Dot(Sub(p, e.c), Sub(e.a, e.c)) >= 0
         /\ Dot(Sub(p, e.c), Sub(e.b, e.c)) >= 0

\* the curve e crosses the horizontal half-line from the integer point p to +x
\* (half-open in y, so that a vertex is seen once)
CrossesRight(p, e) ==
    LET lo == Min2(e.a[2], e.b[2])
        hi == Max2(e.a[2], e.b[2])
    IN  /\ lo <= p[2] /\ p[2] < hi
        /\ IF e.kind = "seg"
           THEN \* x on the segment at height p[2] exceeds p[1]
                LET dy == e.b[2] - e.a[2]
                    num == e.a[1] * dy + (p[2] - e.a[2]) * (e.b[1] - e.a[1]) - p[1] * dy
                IN  num * Sign(dy) > 0
           ELSE LET side == Sign((e.a[1] - e.c[1]) + (e.b[1] - e.c[1]))
                    h == p[2] - e.c[2]
                    w == p[1] - e.c[1]
                    R == e.r * e.r - h * h
                IN  IF side > 0 THEN w < 0 \/ w * w < R
                    ELSE w < 0 /\ w * w > R

ON_ORIENTED_BOUNDARY == "ON_ORIENTED_BOUNDARY"
ON_POSITIVE_SIDE == "ON_POSITIVE_SIDE"
ON_NEGATIVE_SIDE == "ON_NEGATIVE_SIDE"

\* a side test that takes every point of the line through a segment to be on it
oriented_side_line(pset, p) ==
    IF \E i \in 1..Len(pset) :
           \/ OnCurve(p, pset[i])
           \/ pset[i].kind = "seg" /\ Cross(Sub(p, pset[i].a), Sub(pset[i].b, pset[i].a)) = 0
    THEN ON_ORIENTED_BOUNDARY
    ELSE IF Cardinality({i \in 1..Len(pset) : CrossesRight(p, pset[i])}) % 2 = 1
         THEN ON_POSITIVE_SIDE
    ELSE ON_NEGATIVE_SIDE

\* General_polygon_set_2::oriented_side of a point
oriented_side(pset, p) ==
    IF \E i \in 1..Len(pset) : OnCurve(p, pset[i]) THEN ON_ORIENTED_BOUNDARY
    ELSE IF Cardinality({i \in 1..Len(pset) : CrossesRight(p, pset[i])}) % 2 = 1
         THEN ON_POSITIVE_SIDE
    ELSE ON_NEGATIVE_SIDE

\* a point query that accepts every point that is not outside
intersection_point_closed(cs, point) ==
    IF oriented_side(set(cs), point) # ON_NEGATIVE_SIDE THEN Some(Pt(point)) ELSE NONE

\* ConfigurationSpace::intersection(const Point2D&)
intersection_point(cs, point) ==
    IF oriented_side(set(cs), point) = ON_ORIENTED_BOUNDARY THEN Some(Pt(point)) ELSE NONE

(***************************************************************************)
(* Trajectories.  A trajectory has an integer source and the direction     *)
(* vector / sqrt(norm2): norm2 = 1 for a ray given by its vector, and      *)
(* norm2 = |vector|^2 for the unit vector (cos, sin) of a heading.         *)
(***************************************************************************)
Ray2D(source, vector) == [source |-> source, vector |-> vector, norm2 |-> 1]

\* headings are the multiples of pi/4
Compass ==
    << <<1, 0>>, <<1, 1>>, <<0, 1>>, <<-1, 1>>, <<-1, 0>>, <<-1, -1>>, <<0, -1>>, <<1, -1>> >>

Headings == 1..Len(Compass)

\* Vector2D{cos(angle), sin(angle)}
direction_vector(angle) ==
    [vector |-> Compass[angle], norm2 |-> Dot(Compass[angle], Compass[angle])]

\* parameters t at which the line source + t*d meets the curve e in a point
LineHitsSeg(source, d, e) ==
    LET den == Cross(d, Sub(e.b, e.a))
        tn == Cross(Sub(e.a, source), Sub(e.b, e.a))
        un == Cross(Sub(e.a, source), d)
    IN  IF den = 0 THEN {}
        ELSE IF un * Sign(den) >= 0 /\ Abs(un) <= Abs(den) THEN {RatT(tn, den)}
        ELSE {}

LineHitsArc(source, d, e) ==
    LET dd == Dot(d, d)
        sc == Sub(source, e.c)
        b == Dot(d, sc)
        disc == b * b - dd * (Dot(sc, sc) - e.r * e.r)
        within(t, u) == SignRoot(Dot(sc, u) * t.A + t.p * Dot(d, u), t.q * Dot(d, u), t.D) >= 0
    IN  IF disc < 0 THEN {}
        ELSE {t \in {NormT(-b, 1, disc, dd), NormT(-b, -1, disc, dd)} :
                 within(t, Sub(e.a, e.c)) /\ within(t, Sub(e.b, e.c))}

LineHits(source, d, shape) ==
    UNION {IF shape[i].kind = "seg" THEN LineHitsSeg(source, d, shape[i])
           ELSE LineHitsArc(source, d, shape[i]) : i \in 1..Len(shape)}

\* the segment e lies on the line source + t*d
Collinear(source, d, e) ==
    e.kind = "seg" /\ Cross(d, Sub(e.b, e.a)) = 0 /\ Cross(Sub(e.a, source), d) = 0

ParamOf(source, d, v) == RatT(Dot(Sub(v, source), d), Dot(d, d))

\* the line overlaps a boundary segment just before (after) the parameter t
OverlapBefore(source, d, shape, t) ==
    \E i \in 1..Len(shape) :
        /\ Collinear(source, d, shape[i])
        /\ LET ta == ParamOf(source, d, shape[i].a)
               tb == ParamOf(source, d, shape[i].b)
           IN  (CmpT(ta, t) < 0 /\ CmpT(t, tb) <= 0) \/ (CmpT(tb, t) < 0 /\ CmpT(t, ta) <= 0)

OverlapAfter(source, d, shape, t) ==
    \E i \in 1..Len(shape) :
        /\ Collinear(source, d, shape[i])
        /\ LET ta == ParamOf(source, d, shape[i].a)
               tb == ParamOf(source, d, shape[i].b)
           IN  (CmpT(ta, t) <= 0 /\ CmpT(t, tb) < 0) \/ (CmpT(tb, t) <= 0 /\ CmpT(t, ta) < 0)

(***************************************************************************)
(* CGAL::insert(arrangement, long_path): the vertices of the arrangement   *)
(* that lie on the inserted path and on the boundary, by their parameter   *)
(* along the path, which runs over 0 <= t <= tmax.  Such a vertex has the  *)
(* two boundary edges, and one more edge for each side on which the path   *)
(* continues without running along a boundary segment.                     *)
(***************************************************************************)
\* the vertices on the whole line through the source, not only on the path
PathVertices_line(source, d, tmax, shape) ==
    {t \in LineHits(source, d, shape) : CmpT(t, tmax) <= 0}

PathVertices(source, d, tmax, shape) ==
    {t \in LineHits(source, d, shape) : SignT(t) >= 0 /\ CmpT(t, tmax) <= 0}

degree(source, d, tmax, shape, t) ==
    2 + (IF SignT(t) > 0 /\ ~OverlapBefore(source, d, shape, t) THEN 1 ELSE 0)
      + (IF CmpT(t, tmax) < 0 /\ ~OverlapAfter(source, d, shape, t) THEN 1 ELSE 0)

\* a margin of the width of the bounding box alone
margin_width(cs) == LET bb == bbox(cs) IN bb.xmax - bb.xmin

\* margin = (xmax - xmin) + (ymax - ymin) of the cached bounding box
margin(cs) == LET bb == bbox(cs) IN (bb.xmax - bb.xmin) + (bb.ymax - bb.ymin)

\* long_path = {source, source + to_vector * margin}: the last parameter of the path
path_end(cs, trajectory) == NormT(0, margin(cs), trajectory.norm2, trajectory.norm2)

\* the vertices with degree > 2, the source among them
intersections_with_source(cs, trajectory) ==
    LET source == trajectory.source
        d == trajectory.vector
        tmax == path_end(cs, trajectory)
        shape == set(cs)
    IN  {PointAt(source, d, t) :
            t \in {u \in PathVertices(source, d, tmax, shape) :
                      degree(source, d, tmax, shape, u) > 2}}

\* the arrangement vertices other than the source with degree > 2, as points
intersections(cs, trajectory) ==
    LET source == trajectory.source
        d == trajectory.vector
        tmax == path_end(cs, trajectory)
        shape == set(cs)
    IN  {PointAt(source, d, t) :
            t \in {u \in PathVertices(source, d, tmax, shape) :
                      /\ PointAt(source, d, u) # Pt(source)
                      /\ degree(source, d, tmax, shape, u) > 2}}

\* a count with one crossing for each boundary curve that holds the point
intersection_count_per_curve(cs, trajectory) ==
    LET source == trajectory.source
        d == trajectory.vector
        shape == set(cs)
        on(i) == {PointAt(source, d, t) :
                     t \in IF shape[i].kind = "seg" THEN LineHitsSeg(source, d, shape[i])
                           ELSE LineHitsArc(source, d, shape[i])}
    IN  Cardinality({x \in (1..Len(shape)) \X intersections(cs, trajectory) : x[2] \in on(x[1])})

\* ConfigurationSpace::intersection(trajectory, out): the number of points written
intersection_count(cs, trajectory) == Cardinality(intersections(cs, trajectory))

\* a query that returns the end of the probe
first_intersection_probe_end(cs, trajectory) ==
    {Some(PointAt(trajectory.source, trajectory.vector, path_end(cs, trajectory)))}

\* ConfigurationSpace::intersection<Trajectory, Path>(trajectory): the first vertex,
\* in the iteration order of the arrangement, that is not the source and has
\* degree > 2.  The order of the vertex container is not fixed by the code, so
\* every such vertex is a possible result.
first_intersection(cs, trajectory) ==
    IF intersections(cs, trajectory) = {} THEN {NONE}
    ELSE {Some(v) : v \in intersections(cs, trajectory)}

(***************************************************************************)
(* Movement model.                                                         *)
(***************************************************************************)
Trajectory(origin, dv) == [source |-> origin, vector |-> dv.vector, norm2 |-> dv.norm2]

\* MovementModel::operator(): nullopt unless the origin is on the boundary, then
\* the first intersection of the trajectory from the origin along the heading
movement(cs, origin, angle) ==
    IF intersection_point(cs, origin) = NONE THEN {NONE}
    ELSE first_intersection(cs, Trajectory(origin, direction_vector(angle)))

\* a path to whatever endpoint there is, the origin itself included
generatePath_unchecked(origin, maybe_endpoint) ==
    IF maybe_endpoint = NONE THEN NONE
    ELSE Some([source |-> Pt(origin), target |-> Value(maybe_endpoint)])

\* MovementModel::generatePath, given the endpoint operator() returned
generatePath(origin, maybe_endpoint) ==
    IF maybe_endpoint = NONE THEN NONE
    ELSE IF Value(maybe_endpoint) = Pt(origin) THEN NONE
    ELSE Some([source |-> Pt(origin), target |-> Value(maybe_endpoint)])

(***************************************************************************)
(* Rotation models.  Angles and errors are exact numbers, held here as      *)
(* integers; the factor a distribution returns is held as a numerator over  *)
(* FactorDen, so that 1.0 is FactorDen and -1.0 is -FactorDen.              *)
(***************************************************************************)
FactorDen == 2

\* the pseudo-random generator, reduced to a cycle of 2 * FactorDen states
seed_prng(seed) == seed % (2 * FactorDen)

advance(prng) == (prng + 1) % (2 * FactorDen)

\* std::uniform_real_distribution<double>{-1.0, 1.0} on the advanced generator:
\* a factor in [-1, 1)
uniform_real_distribution(prng) == prng - FactorDen

\* a flat distribution that draws from the generator
flat_distribution_drawn(prng) == uniform_real_distribution(prng)

\* flat_distribution: 1.0 whatever the generator holds
flat_distribution(prng) == FactorDen

\* a generator seeded from the random device whatever seed is given
initial_seed_device(seeded, seed, device) == device

\* the seed of the generator: the caller's seed, or std::random_device{}() without one
initial_seed(seeded, seed, device) == IF seeded THEN seed ELSE device

\* the strategies: PRRotationModel / RotationModel<> without a seed, SeededPRRotationModel /
\* RotationModel<> with a seed, MaximumRotationModel, FixedRotationModel
Strategies == {"random", "seeded", "flat", "fixed"}

NoModel ==
    [strategy |-> "none", max_rotation_error |-> 0, prng |-> 0, fixed_rotation |-> 0]

\* RotationModel(max_rotation_error, seed): prng{seed}, rand_dist{-1.0, 1.0}
RotationModel(strategy, max_rotation_error, seed) ==
    [strategy |-> strategy, max_rotation_error |-> max_rotation_error,
     prng |-> seed_prng(seed), fixed_rotation |-> 0]

\* a fixed rotation of the whole error, whatever the scale
FixedRotationModel_unscaled(max_rotation_error, fixed_rotation_scale) ==
    [strategy |-> "fixed", max_rotation_error |-> max_rotation_error,
     prng |-> 0, fixed_rotation |-> max_rotation_error]

\* FixedRotationModel(max_rotation_error, fixed_rotation_scale)
FixedRotationModel(max_rotation_error, fixed_rotation_scale) ==
    [strategy |-> "fixed", max_rotation_error |-> max_rotation_error,
     prng |-> 0, fixed_rotation |-> fixed_rotation_scale * max_rotation_error]

\* a generator that operator() leaves as it was
prng_after_same(model) == model.prng

\* the generator after operator(): rand_dist(prng) advances it, flat_distribution does not
prng_after(model) ==
    IF model.strategy \in {"random", "seeded"} THEN advance(model.prng) ELSE model.prng

\* operator()(angle): angle + rand_dist(prng) * max_rotation_error, or angle + fixed_rotation
rotate(model, angle) ==
    IF model.strategy = "fixed" THEN angle + model.fixed_rotation
    ELSE IF model.strategy = "flat"
    THEN angle + (flat_distribution(model.prng) * model.max_rotation_error) \div FactorDen
    ELSE angle + (uniform_real_distribution(prng_after(model)) * model.max_rotation_error)
                     \div FactorDen

\* an upper bound taken from the fixed rotation
getMaxRotation_fixed(model, angle) == angle + model.fixed_rotation

\* getMaxRotation(angle), getMinRotation(angle)
getMaxRotation(model, angle) == angle + model.max_rotation_error

getMinRotation(model, angle) == angle - model.max_rotation_error

(***************************************************************************)
(* State.                                                                  *)
(***************************************************************************)
VARIABLES
    wall_space,             \* std::optional<WallSpace>: the enclosure polygon
    robot_radius,           \* the radius last passed to constructConfigurationSpace
    configuration_space,    \* std::unique_ptr<ConfigurationSpace>
    call,                   \* the last call and what it returned to the caller
    rotation_model,         \* the rotation model objects, by instance
    rotation_log,           \* what the caller passed to and got from each rotation model
    thread,                 \* the position and locals of each thread inside a call
    robot                   \* the Robot: its radius and its configuration_environment

vars == <<wall_space, robot_radius, configuration_space, call,
          rotation_model, rotation_log, thread, robot>>

geometry_vars == <<wall_space, robot_radius, configuration_space, call>>

rotation_vars == <<rotation_model, rotation_log>>

Grid == (0..MaxCoord) \X (0..MaxCoord)

Vectors == {Compass[h] : h \in Headings}

\* no call in progress, nothing returned
Idle ==
    [op |-> "idle", point |-> <<0, 0>>, vector |-> <<0, 0>>, angle |-> 0,
     result |-> NONE, count |-> 0, points |-> {}, path |-> NONE, generated |-> FALSE,
     emitted |-> "none", enclosure |-> << >>]

\* the rotation model instances and the threads of the callers
Instances == {1, 2}

Threads == {1, 2}

MaxCalls == 3

Angles == {0, 1}

MaxErrors == {0, 2}

Seeds == {0, 3}

Scales == {-1, 0, 1, 2}

\* nothing constructed, nothing called
NoLog ==
    [args |-> [i \in Instances |-> [strategy |-> "none", max_rotation_error |-> 0,
                                    seed |-> 0, scale |-> 0]],
     calls |-> [i \in Instances |-> << >>],
     bounds |-> NONE]

\* a thread outside every call
Resting ==
    [pc |-> "rest", op |-> "none", point |-> <<0, 0>>, vector |-> <<0, 0>>,
     angle |-> 0, prng |-> 0, rotated |-> 0, result |-> NONE]

\* no Robot constructed yet
NoRobot == [radius |-> 0, configuration_environment |-> NONE]

Init ==
    /\ wall_space = NONE
    /\ robot_radius = 0
    /\ configuration_space = NONE
    /\ call = Idle
    /\ rotation_model = [i \in Instances |-> NoModel]
    /\ rotation_log = NoLog
    /\ thread = [t \in Threads |-> Resting]
    /\ robot = NoRobot

\* WallSpace::create(points)
Create(points) ==
    /\ call.op = "idle"
    /\ wall_space = NONE
    /\ wall_space' = WallSpace_create(points)
    /\ call' = [Idle EXCEPT !.op = "create", !.enclosure = points]
    /\ UNCHANGED <<robot_radius, configuration_space>>
    /\ UNCHANGED <<rotation_vars, thread, robot>>

\* wall_space->generateConfigurationGeometry(robot_radius)
Construct(radius) ==
    /\ call.op = "idle"
    /\ wall_space # NONE
    /\ \E emitted \in Orientations :
           /\ configuration_space' =
                  constructConfigurationSpace(Value(wall_space), radius, emitted)
           /\ call' = [Idle EXCEPT !.op = "construct", !.emitted = emitted]
    /\ robot_radius' = radius
    /\ UNCHANGED wall_space
    /\ UNCHANGED <<rotation_vars, thread, robot>>

\* configuration_space->intersection(point)
PointIntersection(point) ==
    /\ call.op = "idle"
    /\ configuration_space # NONE
    /\ LET cs == Value(configuration_space)
       IN  /\ call' = [Idle EXCEPT !.op = "point", !.point = point,
                                   !.result = intersection_point(cs, point)]
           /\ configuration_space' = Some(WithSet(cs))
    /\ UNCHANGED <<wall_space, robot_radius>>
    /\ UNCHANGED <<rotation_vars, thread, robot>>

\* a trajectory query that inserts long_path into the arrangement of the cached set
AfterQuery_in_place(cs, trajectory) ==
    LET bb == bbox(cs)
        m == (bb.xmax - bb.xmin) + (bb.ymax - bb.ymin)
        far == <<trajectory.source[1] + m * trajectory.vector[1],
                 trajectory.source[2] + m * trajectory.vector[2]>>
    IN  [WithBBox(cs) EXCEPT !.polygon_set = Some(set(cs) \o <<Segment(trajectory.source, far)>>)]

\* the object after a trajectory query: bbox() and set() have filled the caches, and
\* long_path went into 'auto arrangement', a copy of the arrangement of the set
AfterQuery(cs, trajectory) == WithSet(WithBBox(cs))

\* configuration_space->intersection<Ray2D, Segment2D>(ray, back_inserter(points))
RayIntersection(source, vector) ==
    /\ call.op = "idle"
    /\ configuration_space # NONE
    /\ LET cs == Value(configuration_space)
           ray == Ray2D(source, vector)
       IN  /\ call' = [Idle EXCEPT !.op = "ray", !.point = source, !.vector = vector,
                                   !.count = intersection_count(cs, ray),
                                   !.points = intersections(cs, ray)]
           /\ configuration_space' = Some(AfterQuery(cs, ray))
    /\ UNCHANGED <<wall_space, robot_radius>>
    /\ UNCHANGED <<rotation_vars, thread, robot>>

\* configuration_space->intersection<Ray2D, Segment2D>(ray), returning one point
FirstIntersection(source, vector) ==
    /\ call.op = "idle"
    /\ configuration_space # NONE
    /\ LET cs == Value(configuration_space)
       IN  /\ \E found \in first_intersection(cs, Ray2D(source, vector)) :
                  call' = [Idle EXCEPT !.op = "first", !.point = source, !.vector = vector,
                                       !.result = found]
           /\ configuration_space' = Some(AfterQuery(cs, Ray2D(source, vector)))
    /\ UNCHANGED <<wall_space, robot_radius>>
    /\ UNCHANGED <<rotation_vars, thread, robot>>

\* the caches a movement attempt fills: the set always, the box once the origin passed
AfterMovement(cs, origin) ==
    IF intersection_point(cs, origin) = NONE THEN WithSet(cs) ELSE WithSet(WithBBox(cs))

\* movement_model(origin, angle, *configuration_space)
Move(origin, angle) ==
    /\ call.op = "idle"
    /\ configuration_space # NONE
    /\ LET cs == Value(configuration_space)
       IN  /\ \E endpoint \in movement(cs, origin, angle) :
                  call' = [Idle EXCEPT !.op = "move", !.point = origin, !.angle = angle,
                                       !.result = endpoint]
           /\ configuration_space' = Some(AfterMovement(cs, origin))
    /\ UNCHANGED <<wall_space, robot_radius>>
    /\ UNCHANGED <<rotation_vars, thread, robot>>

\* movement_model.generatePath(origin, angle, *configuration_space)
GeneratePath(origin, angle) ==
    /\ call.op = "idle"
    /\ configuration_space # NONE
    /\ LET cs == Value(configuration_space)
       IN  /\ \E maybe_endpoint \in movement(cs, origin, angle) :
                  call' = [Idle EXCEPT !.op = "path", !.point = origin, !.angle = angle,
                                       !.result = maybe_endpoint,
                                       !.path = generatePath(origin, maybe_endpoint)]
           /\ configuration_space' = Some(AfterMovement(cs, origin))
    /\ UNCHANGED <<wall_space, robot_radius>>
    /\ UNCHANGED <<rotation_vars, thread, robot>>

\* the caller takes the returned value
Return ==
    /\ call.op # "idle"
    /\ call' = Idle
    /\ UNCHANGED <<wall_space, robot_radius, configuration_space>>
    /\ UNCHANGED <<rotation_vars, thread, robot>>

Next ==
    \/ \E points \in Enclosures : Create(points)
    \/ \E radius \in Radii : Construct(radius)
    \/ \E point \in Grid : PointIntersection(point)
    \/ \E source \in Grid, vector \in Vectors : RayIntersection(source, vector)
    \/ \E source \in Grid, vector \in Vectors : FirstIntersection(source, vector)
    \/ \E origin \in Grid, angle \in Headings : Move(origin, angle)
    \/ \E origin \in Grid, angle \in Headings : GeneratePath(origin, angle)
    \/ Return

Spec == Init /\ [][Next]_vars

(***************************************************************************)
(* Rotation models used by one caller.                                      *)
(***************************************************************************)
Constructed(i, model, args) ==
    /\ rotation_model[i].strategy = "none"
    /\ rotation_model' = [rotation_model EXCEPT ![i] = model]
    /\ rotation_log' = [rotation_log EXCEPT !.args[i] = args]
    /\ UNCHANGED <<geometry_vars, thread, robot>>

\* PRRotationModel(max_rotation_error) / RotationModel<>(max_rotation_error)
NewPRRotationModel(i, max_rotation_error) ==
    \E device \in Seeds :
        Constructed(i, RotationModel("random", max_rotation_error,
                                     initial_seed(FALSE, 0, device)),
                    [strategy |-> "random", max_rotation_error |-> max_rotation_error,
                     seed |-> 0, scale |-> 0])

\* SeededPRRotationModel(max_rotation_error, seed) / RotationModel<>(max_rotation_error, seed)
NewSeededPRRotationModel(i, max_rotation_error, seed) ==
    \E device \in Seeds :
        Constructed(i, RotationModel("seeded", max_rotation_error,
                                     initial_seed(TRUE, seed, device)),
                    [strategy |-> "seeded", max_rotation_error |-> max_rotation_error,
                     seed |-> seed, scale |-> 0])

\* MaximumRotationModel(max_rotation_error, seed)
NewMaximumRotationModel(i, max_rotation_error, seed) ==
    \E device \in Seeds :
        Constructed(i, RotationModel("flat", max_rotation_error,
                                     initial_seed(TRUE, seed, device)),
                    [strategy |-> "flat", max_rotation_error |-> max_rotation_error,
                     seed |-> seed, scale |-> 1])

\* FixedRotationModel(max_rotation_error, fixed_rotation_scale)
NewFixedRotationModel(i, max_rotation_error, fixed_rotation_scale) ==
    Constructed(i, FixedRotationModel(max_rotation_error, fixed_rotation_scale),
                [strategy |-> "fixed", max_rotation_error |-> max_rotation_error,
                 seed |-> 0, scale |-> fixed_rotation_scale])

\* the calls made so far on all instances
CallsMade == Len(rotation_log.calls[1]) + Len(rotation_log.calls[2])

\* rotation_model(angle)
Rotate(i, angle) ==
    /\ rotation_model[i].strategy # "none"
    /\ CallsMade < MaxCalls
    /\ rotation_model' = [rotation_model EXCEPT ![i].prng = prng_after(rotation_model[i])]
    /\ rotation_log' =
           [rotation_log EXCEPT !.calls[i] =
               Append(@, [angle |-> angle, result |-> rotate(rotation_model[i], angle)])]
    /\ UNCHANGED <<geometry_vars, thread, robot>>

\* rotation_model.getMinRotation(angle), rotation_model.getMaxRotation(angle)
Bounds(i, angle) ==
    /\ rotation_model[i].strategy # "none"
    /\ rotation_log' =
           [rotation_log EXCEPT !.bounds =
               Some([model |-> i, angle |-> angle,
                     min |-> getMinRotation(rotation_model[i], angle),
                     max |-> getMaxRotation(rotation_model[i], angle)])]
    /\ UNCHANGED <<geometry_vars, rotation_model, thread, robot>>

RotationNext ==
    \/ \E i \in Instances, e \in MaxErrors : NewPRRotationModel(i, e)
    \/ \E i \in Instances, e \in MaxErrors, seed \in Seeds : NewSeededPRRotationModel(i, e, seed)
    \/ \E i \in Instances, e \in MaxErrors, seed \in Seeds : NewMaximumRotationModel(i, e, seed)
    \/ \E i \in Instances, e \in MaxErrors, k \in Scales : NewFixedRotationModel(i, e, k)
    \/ \E i \in Instances, angle \in Angles : Rotate(i, angle)
    \/ \E i \in Instances, angle \in Angles : Bounds(i, angle)

RotationSpec == Init /\ [][RotationNext]_vars

(***************************************************************************)
(* One stochastic rotation model shared by threads that call operator()     *)
(* without synchronisation.  rand_dist(prng) reads the generator state and  *)
(* writes the advanced state back; the two accesses of different threads    *)
(* interleave.                                                              *)
(***************************************************************************)
Shared == 1

\* rand_dist(this->prng): the generator state is read
LoadGenerator(t, angle) ==
    /\ rotation_model[Shared].strategy \in {"random", "seeded"}
    /\ thread[t].pc = "rest"
    /\ thread' = [thread EXCEPT ![t] = [Resting EXCEPT !.pc = "loaded", !.op = "rotate",
                                                       !.angle = angle,
                                                       !.prng = rotation_model[Shared].prng]]
    /\ UNCHANGED <<geometry_vars, rotation_vars, robot>>

\* the advanced state is written back and angle + factor * max_rotation_error returned
StoreGenerator(t) ==
    /\ thread[t].pc = "loaded"
    /\ LET mine == [rotation_model[Shared] EXCEPT !.prng = thread[t].prng]
       IN  /\ rotation_model' = [rotation_model EXCEPT ![Shared].prng = prng_after(mine)]
           /\ thread' = [thread EXCEPT ![t].pc = "done",
                                       ![t].rotated = rotate(mine, thread[t].angle)]
    /\ UNCHANGED <<geometry_vars, rotation_log, robot>>

\* the caller takes the returned angle
TakeRotated(t) ==
    /\ thread[t].pc = "done"
    /\ thread[t].op = "rotate"
    /\ thread' = [thread EXCEPT ![t] = Resting]
    /\ UNCHANGED <<geometry_vars, rotation_vars, robot>>

RaceNext ==
    \/ \E e \in MaxErrors : NewPRRotationModel(Shared, e)
    \/ \E e \in MaxErrors, seed \in Seeds : NewSeededPRRotationModel(Shared, e, seed)
    \/ \E t \in Threads, angle \in Angles : LoadGenerator(t, angle)
    \/ \E t \in Threads : StoreGenerator(t)
    \/ \E t \in Threads : TakeRotated(t)

RaceSpec == Init /\ [][RaceNext]_vars

(***************************************************************************)
(* One configuration space shared by threads that query it without          *)
(* synchronisation.  A query goes through bbox() and set(), which test the  *)
(* mutable caches and fill them statement by statement; the statements of   *)
(* different threads interleave.                                            *)
(***************************************************************************)
QueryPoints == {<<1, 1>>, <<2, 2>>, <<3, 1>>}

QueryRays == {<<<<2, 2>>, <<1, 0>>>>, <<<<1, 1>>, <<1, 1>>>>}

\* a thread enters intersection(point), bbox() or intersection(ray, out)
BeginQuery(t, op, point, vector) ==
    /\ configuration_space # NONE
    /\ call.op = "idle"
    /\ thread[t].pc = "rest"
    /\ thread' = [thread EXCEPT ![t] =
                     [Resting EXCEPT !.pc = IF op = "point" THEN "set_check" ELSE "bbox_check",
                                     !.op = op, !.point = point, !.vector = vector]]
    /\ UNCHANGED <<geometry_vars, rotation_vars, robot>>

\* bbox(): if (!this->bounding_box.has_value())
BBoxCheck(t) ==
    /\ thread[t].pc = "bbox_check"
    /\ thread' = [thread EXCEPT ![t].pc =
                     IF Value(configuration_space).bounding_box = NONE THEN "bbox_fill"
                     ELSE IF thread[t].op = "bbox" THEN "use" ELSE "set_check"]
    /\ UNCHANGED <<geometry_vars, rotation_vars, robot>>

\* bbox(): this->bounding_box = this->configuration_shape.bbox()
BBoxFill(t) ==
    /\ thread[t].pc = "bbox_fill"
    /\ LET cs == Value(configuration_space)
       IN  configuration_space' =
               Some([cs EXCEPT !.bounding_box = Some(bbox_of(cs.configuration_shape))])
    /\ thread' = [thread EXCEPT ![t].pc = IF thread[t].op = "bbox" THEN "use" ELSE "set_check"]
    /\ UNCHANGED <<wall_space, robot_radius, call, rotation_vars, robot>>

\* set(): if (!this->polygon_set.has_value())
SetCheck(t) ==
    /\ thread[t].pc = "set_check"
    /\ thread' = [thread EXCEPT ![t].pc =
                     IF Value(configuration_space).polygon_set = NONE THEN "set_new" ELSE "use"]
    /\ UNCHANGED <<geometry_vars, rotation_vars, robot>>

\* set(): this->polygon_set = CurvilinearPolygonSet2D{}
SetNew(t) ==
    /\ thread[t].pc = "set_new"
    /\ configuration_space' =
           Some([Value(configuration_space) EXCEPT !.polygon_set = Some(<< >>)])
    /\ thread' = [thread EXCEPT ![t].pc = "set_insert"]
    /\ UNCHANGED <<wall_space, robot_radius, call, rotation_vars, robot>>

\* set(): this->polygon_set->insert(this->configuration_shape)
SetInsert(t) ==
    /\ thread[t].pc = "set_insert"
    /\ LET cs == Value(configuration_space)
       IN  configuration_space' = Some([cs EXCEPT !.polygon_set = Some(cs.configuration_shape)])
    /\ thread' = [thread EXCEPT ![t].pc = "use"]
    /\ UNCHANGED <<wall_space, robot_radius, call, rotation_vars, robot>>

\* what a query computes from the object as it is
QueryResult(cs, op, point, vector) ==
    IF op = "point" THEN intersection_point(cs, point)
    ELSE IF op = "bbox" THEN Some(bbox(cs))
    ELSE intersections(cs, Ray2D(point, vector))

\* the rest of the query, on the caches as they are now
UseCaches(t) ==
    /\ thread[t].pc = "use"
    /\ thread' = [thread EXCEPT ![t].pc = "done",
                                ![t].result = QueryResult(Value(configuration_space), thread[t].op,
                                                          thread[t].point, thread[t].vector)]
    /\ UNCHANGED <<geometry_vars, rotation_vars, robot>>

\* the caller takes the result
EndQuery(t) ==
    /\ thread[t].pc = "done"
    /\ thread[t].op # "rotate"
    /\ thread' = [thread EXCEPT ![t] = Resting]
    /\ UNCHANGED <<geometry_vars, rotation_vars, robot>>

SharedNext ==
    \/ \E points \in Enclosures : Create(points)
    \/ \E radius \in Radii : configuration_space = NONE /\ Construct(radius)
    \/ Return
    \/ \E t \in Threads, point \in QueryPoints : BeginQuery(t, "point", point, <<0, 0>>)
    \/ \E t \in Threads : BeginQuery(t, "bbox", <<0, 0>>, <<0, 0>>)
    \/ \E t \in Threads, ray \in QueryRays : BeginQuery(t, "ray", ray[1], ray[2])
    \/ \E t \in Threads : BBoxCheck(t)
    \/ \E t \in Threads : BBoxFill(t)
    \/ \E t \in Threads : SetCheck(t)
    \/ \E t \in Threads : SetNew(t)
    \/ \E t \in Threads : SetInsert(t)
    \/ \E t \in Threads : UseCaches(t)
    \/ \E t \in Threads : EndQuery(t)

SharedSpec == Init /\ [][SharedNext]_vars

(***************************************************************************)
(* A robot that is handed configuration spaces by the wall spaces its owner *)
(* creates, one after the other.                                            *)
(***************************************************************************)
\* wall_space = WallSpace::create(points): the owner creates another wall space
NewWallSpace(points) ==
    /\ call.op = "idle"
    /\ wall_space' = WallSpace_create(points)
    /\ call' = [Idle EXCEPT !.op = "create", !.enclosure = points]
    /\ UNCHANGED <<robot_radius, configuration_space, rotation_vars, thread, robot>>

\* Robot(robot_radius, max_rotation_error): a robot that owns no configuration space
NewRobot(radius) ==
    /\ call.op = "idle"
    /\ robot = NoRobot
    /\ robot' = [radius |-> radius, configuration_environment |-> NONE]
    /\ call' = [Idle EXCEPT !.op = "robot"]
    /\ UNCHANGED <<wall_space, robot_radius, configuration_space, rotation_vars, thread>>

\* wall_space->generateConfigurationGeometry(robot)
GenerateConfigurationGeometry ==
    /\ call.op = "idle"
    /\ wall_space # NONE
    /\ robot # NoRobot
    /\ \E emitted \in Orientations :
           \E outcome \in {generateConfigurationGeometry(Value(wall_space), robot, emitted)} :
               /\ robot' = outcome.robot
               /\ call' = [Idle EXCEPT !.op = "generate", !.generated = outcome.generated,
                                       !.emitted = emitted]
    /\ robot_radius' = getRadius(robot)
    /\ UNCHANGED <<wall_space, configuration_space, rotation_vars, thread>>

RobotNext ==
    \/ \E points \in Enclosures : NewWallSpace(points)
    \/ \E radius \in Radii : NewRobot(radius)
    \/ GenerateConfigurationGeometry
    \/ Return

RobotSpec == Init /\ [][RobotNext]_vars

(***************************************************************************)
(* Construction and point queries for the enclosures with a wall of         *)
(* irrational length.                                                       *)
(***************************************************************************)
ApproxNext ==
    \/ \E points \in DiagonalEnclosures : Create(points)
    \/ \E radius \in Radii : Construct(radius)
    \/ \E point \in Grid : PointIntersection(point)
    \/ Return

ApproxSpec == Init /\ [][ApproxNext]_vars

(***************************************************************************)
(* What the claims speak of.                                               *)
(***************************************************************************)
Shape == Value(configuration_space).configuration_shape

Wall == Value(wall_space)

OnBoundary(p) == \E i \in 1..Len(Shape) : OnCurve(p, Shape[i])

\* The robot centred at the point (X/k, Y/k): -1 when it overlaps a wall or is
\* not in the enclosure, 0 when it touches a wall, 1 when it is clear of all.
ClearOfSegment(X, Y, k, r, a, b) ==
    LET A == <<k * a[1], k * a[2]>>
        B == <<k * b[1], k * b[2]>>
        e == Sub(B, A)
        w == Sub(<<X, Y>>, A)
        pr == Dot(w, e)
        ee == Dot(e, e)
        R2 == r * r * k * k
    IN  IF pr <= 0 THEN Sign(Dot(w, w) - R2)
        ELSE IF pr >= ee THEN Sign(Dot(Sub(<<X, Y>>, B), Sub(<<X, Y>>, B)) - R2)
        ELSE Sign(Cross(w, e) * Cross(w, e) - R2 * ee)

InEnclosure(X, Y, k, poly) ==
    LET E == Edges(poly)
        crosses(i) ==
            LET A == <<k * E[i][1][1], k * E[i][1][2]>>
                B == <<k * E[i][2][1], k * E[i][2][2]>>
                dy == B[2] - A[2]
            IN  /\ Min2(A[2], B[2]) <= Y /\ Y < Max2(A[2], B[2])
                /\ (A[1] * dy + (Y - A[2]) * (B[1] - A[1]) - X * dy) * Sign(dy) > 0
    IN  Cardinality({i \in 1..Len(poly) : crosses(i)}) % 2 = 1

Clearance(X, Y, k) ==
    LET E == Edges(Wall)
        signs == {ClearOfSegment(X, Y, k, robot_radius, E[i][1], E[i][2]) : i \in 1..Len(Wall)}
    IN  IF ~InEnclosure(X, Y, k, Wall) THEN -1 ELSE SetMin(signs)

\* C1: constructing the configuration space returns null exactly when the
\* erosion of the enclosure by the robot radius yields zero or more than one
\* closed curve, and a configuration space bounded by the one curve otherwise.
C1_ConstructNullIffNotOneCurve ==
    call.op = "construct" =>
        LET curves == approximated_inset_2(Wall, robot_radius)
        IN  /\ configuration_space = NONE <=> (Len(curves) = 0 \/ Len(curves) > 1)
            /\ Len(curves) = 1 =>
                   /\ configuration_space # NONE
                   /\ {Shape[i] : i \in 1..Len(Shape)} = {curves[1][i] : i \in 1..Len(curves[1])}

C1_Witness ==
    /\ call.op = "construct"
    /\ configuration_space = NONE
    /\ Len(approximated_inset_2(Wall, robot_radius)) > 1

\* C2: the point query returns the queried point exactly when the point lies on
\* some segment or arc of the boundary, and nullopt for every point at which the
\* robot is clear of all walls (strictly inside) or overlaps one (strictly outside).
C2_PointQueryIffOnBoundary ==
    call.op = "point" =>
        /\ call.result # NONE <=> OnBoundary(call.point)
        /\ call.result # NONE => call.result = Some(Pt(call.point))
        /\ Clearance(call.point[1], call.point[2], 1) # 0 => call.result = NONE
        /\ OnBoundary(call.point) => Clearance(call.point[1], call.point[2], 1) = 0

C2_Witness ==
    /\ call.op = "point"
    /\ call.result = Some(Pt(call.point))
    /\ \E i \in 1..Len(Shape) : Shape[i].kind = "arc" /\ OnCurve(call.point, Shape[i])

(***************************************************************************)
(* Directions at a point of the boundary.  The boundary runs                *)
(* counterclockwise, so the region lies to the left of the tangent; the     *)
(* arcs of an inset bulge into the region (they are its reflex corners), so *)
(* that a tangent direction at an arc end runs into the region.             *)
(***************************************************************************)
\* the direction in which the curve e runs at its point p
Tangent(e, p) ==
    IF e.kind = "seg" THEN Sub(e.b, e.a)
    ELSE LET w == Sub(p, e.c)
         IN  IF Cross(Sub(e.a, e.c), Sub(e.b, e.c)) < 0 THEN <<w[2], -w[1]>>
             ELSE <<-w[2], w[1]>>

\* the tangents of the curve arriving at p and of the curve leaving p
TangentIn(p) ==
    LET i == CHOOSE i \in 1..Len(Shape) : OnCurve(p, Shape[i]) /\ p # Shape[i].a
    IN  Tangent(Shape[i], p)

TangentOut(p) ==
    LET i == CHOOSE i \in 1..Len(Shape) : OnCurve(p, Shape[i]) /\ p # Shape[i].b
    IN  Tangent(Shape[i], p)

\* the direction d at the boundary point p runs into the region or along the boundary
NotOutward(p, d) ==
    LET t1 == TangentIn(p)
        t2 == TangentOut(p)
        turn == Cross(t1, t2)
    IN  IF turn > 0 THEN Cross(t1, d) >= 0 /\ Cross(t2, d) >= 0
        ELSE IF turn < 0 THEN Cross(t1, d) >= 0 \/ Cross(t2, d) >= 0
        ELSE IF Dot(t1, t2) > 0 THEN Cross(t1, d) >= 0
        ELSE Cross(t1, d) = 0 /\ Dot(t2, d) > 0

StrictlyOutward(p, d) == OnBoundary(p) /\ ~NotOutward(p, d)

\* the direction d at the boundary point p runs into the interior of a convex region
StrictlyInward(p, d) ==
    OnBoundary(p) /\ Cross(TangentIn(p), d) > 0 /\ Cross(TangentOut(p), d) > 0

\* the boundary is a convex polygon
Convex(shape) ==
    /\ \A i \in 1..Len(shape) : shape[i].kind = "seg"
    /\ \A i \in 1..Len(shape) :
           Cross(Sub(shape[i].b, shape[i].a),
                 Sub(shape[(i % Len(shape)) + 1].b, shape[(i % Len(shape)) + 1].a)) > 0

\* parameters of the points, other than the source, where the unbounded ray
\* source + t*d (t > 0) meets the boundary
ForwardHits(source, d) == {t \in LineHits(source, d, Shape) : SignT(t) > 0}

\* the ray runs along a straight segment of the boundary
RunsAlongEdge(source, d) == \E i \in 1..Len(Shape) : Collinear(source, d, Shape[i])

\* the ray meets a vertex of the boundary
TouchesVertex(source, d) ==
    \E t \in ForwardHits(source, d), i \in 1..Len(Shape) : PointAt(source, d, t) = Pt(Shape[i].a)

\* the nearest of the forward meeting points, if there is one
NearestForward(source, d) ==
    LET FH == ForwardHits(source, d)
    IN  IF FH = {} THEN NONE
        ELSE Some(PointAt(source, d, CHOOSE t \in FH : \A u \in FH : CmpT(t, u) <= 0))

StrictlyInside(p) == Clearance(p[1], p[2], 1) = 1

StrictlyOutside(p) == Clearance(p[1], p[2], 1) = -1

\* C3: the first-crossing query returns the forward meeting point nearest to the
\* source (the source itself excluded) and nullopt when the ray meets the boundary
\* nowhere else; stated for rays that do not run along a boundary segment.
C3_FirstCrossingIsNearest ==
    (call.op = "first" /\ ~RunsAlongEdge(call.point, call.vector)) =>
        call.result = NearestForward(call.point, call.vector)

\* C4: a movement attempt from an origin on the boundary with a heading that
\* points strictly outward there meets no boundary edge and returns nullopt.
C4_OutwardAttemptAbsent ==
    (call.op = "move" /\ StrictlyOutward(call.point, Compass[call.angle])) =>
        call.result = NONE

C6_OffBoundaryAttemptAbsent ==
    (call.op = "move" /\ ~OnBoundary(call.point)) => call.result = NONE

C6_Witness ==
    /\ call.op = "move"
    /\ StrictlyInside(call.point)
    /\ call.result = NONE

\* C7: generatePath returns nullopt exactly when the movement attempt returns
\* nullopt or the origin itself, and the segment from the origin to the attempt's
\* endpoint in every other case.
C7_PathIffAttemptMoves ==
    call.op = "path" =>
        /\ call.path = NONE <=> (call.result = NONE \/ call.result = Some(Pt(call.point)))
        /\ call.path # NONE =>
               call.path = Some([source |-> Pt(call.point), target |-> Value(call.result)])
        /\ generatePath(call.point, Some(Pt(call.point))) = NONE
        /\ call.result \in movement(Value(configuration_space), call.point, call.angle)

C7_Witness ==
    /\ call.op = "path"
    /\ call.path # NONE
    /\ Value(call.path).source = Pt(call.point)
    /\ Value(call.path).target # Pt(call.point)

\* C8: a ray whose source is outside the boundary, however far, and which passes
\* through a convex boundary without touching a vertex or running along an edge
\* has crossing count 2.
C8_ExteriorRayCountsTwo ==
    (/\ call.op = "ray"
     /\ Convex(Shape)
     /\ StrictlyOutside(call.point)
     /\ ForwardHits(call.point, call.vector) # {}
     /\ ~TouchesVertex(call.point, call.vector)
     /\ ~RunsAlongEdge(call.point, call.vector)) =>
        call.count = 2

\* C9: a ray whose source is on a convex boundary with a direction strictly into
\* the region, or whose source is strictly inside the region, has crossing count
\* exactly 1: the far crossing is reported and the source never is.
C9_InteriorRayCountsOne ==
    (/\ call.op = "ray"
     /\ Convex(Shape)
     /\ StrictlyInward(call.point, call.vector) \/ StrictlyInside(call.point)) =>
        /\ call.count = 1
        /\ call.points = {Value(NearestForward(call.point, call.vector))}
        /\ Pt(call.point) \notin call.points

C9_Witness ==
    /\ call.op = "ray"
    /\ Convex(Shape)
    /\ StrictlyInward(call.point, call.vector)
    /\ Cross(TangentIn(call.point), TangentOut(call.point)) > 0
    /\ call.count = 1

\* C10: a ray whose source is on the boundary or outside it and whose direction
\* points strictly away from the region, so that the ray leaves the source without
\* meeting the boundary again, has crossing count 0 and reports no point.
C10_AwayRayCountsZero ==
    (/\ call.op = "ray"
     /\ StrictlyOutward(call.point, call.vector) \/ StrictlyOutside(call.point)
     /\ ForwardHits(call.point, call.vector) = {}) =>
        /\ call.count = 0
        /\ call.points = {}

C10_Witness ==
    /\ call.op = "ray"
    /\ StrictlyOutward(call.point, call.vector)
    /\ Cross(TangentIn(call.point), TangentOut(call.point)) > 0
    /\ ForwardHits(call.point, call.vector) = {}
    /\ call.count = 0

\* the last parameter of the probe built for the ray of the last query
ProbeEnd == path_end(Value(configuration_space), Ray2D(call.point, call.vector))

\* the ray passes through the boundary vertex v: v lies ahead of the source on the
\* probe, which goes on beyond v, and the probe does not run along both curves at v
PassesThrough(source, d, v) ==
    /\ v # source
    /\ Cross(Sub(v, source), d) = 0
    /\ Dot(Sub(v, source), d) > 0
    /\ CmpT(ParamOf(source, d, v), ProbeEnd) < 0
    /\ ~(OverlapBefore(source, d, Shape, ParamOf(source, d, v))
         /\ OverlapAfter(source, d, Shape, ParamOf(source, d, v)))

\* C11: a ray that passes through a boundary vertex (a corner or an arc end) is
\* counted as exactly one crossing at that vertex: the vertex is reported, and the
\* count is the number of distinct points reported, not one per incident curve.
C11_VertexCountedOnce ==
    call.op = "ray" =>
        \A i \in 1..Len(Shape) :
            PassesThrough(call.point, call.vector, Shape[i].a) =>
                /\ Pt(Shape[i].a) \in call.points
                /\ call.count = Cardinality(call.points)
                /\ call.count <= Cardinality({PointAt(call.point, call.vector, t) :
                                                 t \in ForwardHits(call.point, call.vector)})

C11_Witness ==
    /\ call.op = "ray"
    /\ \E i \in 1..Len(Shape) :
           /\ PassesThrough(call.point, call.vector, Shape[i].a)
           /\ \E j \in 1..Len(Shape) : Shape[j].kind = "arc" /\ Shape[j].a = Shape[i].a
    /\ call.count = 1

\* C12: a ray collinear with a straight boundary segment counts only the points
\* where its line passes strictly from one side of the boundary to the other; a
\* line along an edge of a convex boundary never does, so nothing is counted.
C12_CollinearRayNoCrossing ==
    (call.op = "ray" /\ Convex(Shape) /\ RunsAlongEdge(call.point, call.vector)) =>
        /\ call.count = 0
        /\ call.points = {}

\* C13: the probe built from the ray of any query is at least as long as the
\* diagonal of the bounding box of the boundary, and it does not end before a
\* point where the ray meets the boundary.
C13_ProbeReachesCrossings ==
    call.op = "ray" =>
        LET cs == Value(configuration_space)
            bb == bbox(cs)
            w == bb.xmax - bb.xmin
            h == bb.ymax - bb.ymin
        IN  /\ Dot(call.vector, call.vector) * margin(cs) * margin(cs) >= w * w + h * h
            /\ \A t \in ForwardHits(call.point, call.vector) : CmpT(t, ProbeEnd) <= 0

\* the calls on instance i, with what the caller passed to its constructor
Args(i) == rotation_log.args[i]

Calls(i) == rotation_log.calls[i]

\* C14: for every rotation strategy, every heading h and every call, the
\* perturbed heading lies in [h - maxError, h + maxError].
C14_RotationWithinBounds ==
    \A i \in Instances : \A k \in 1..Len(Calls(i)) :
        /\ Calls(i)[k].result >= Calls(i)[k].angle - Args(i).max_rotation_error
        /\ Calls(i)[k].result <= Calls(i)[k].angle + Args(i).max_rotation_error

\* C15: for every rotation strategy and heading h the bounds query returns
\* (h - maxError, h + maxError), however many perturbation calls came before.
C15_BoundsAreHeadingPlusMinusError ==
    rotation_log.bounds # NONE =>
        LET b == Value(rotation_log.bounds)
        IN  /\ b.min = b.angle - Args(b.model).max_rotation_error
            /\ b.max = b.angle + Args(b.model).max_rotation_error

C15_Witness ==
    /\ rotation_log.bounds # NONE
    /\ LET b == Value(rotation_log.bounds)
       IN  /\ Args(b.model).strategy = "seeded"
           /\ Args(b.model).max_rotation_error > 0
           /\ Len(Calls(b.model)) = MaxCalls
           /\ b.max = b.angle + Args(b.model).max_rotation_error

\* C16: the deterministic strategy with scale 1 returns exactly h + maxError on
\* every call, whatever the seed and however many calls preceded.
C16_ScaleOneReturnsMaximum ==
    \A i \in Instances :
        (Args(i).strategy \in {"flat", "fixed"} /\ Args(i).scale = 1) =>
            \A k \in 1..Len(Calls(i)) :
                Calls(i)[k].result = Calls(i)[k].angle + Args(i).max_rotation_error

C16_Witness ==
    \E i \in Instances :
        /\ Args(i).strategy = "flat"
        /\ Args(i).seed # 0
        /\ Args(i).max_rotation_error > 0
        /\ Len(Calls(i)) = MaxCalls
        /\ Calls(i)[MaxCalls].result = Calls(i)[MaxCalls].angle + Args(i).max_rotation_error

C20_CallReadsAndUpdatesGenerator ==
    [][\A t \in Threads :
          /\ (thread[t].pc = "rest" /\ thread'[t].pc = "loaded") =>
                 thread'[t].prng = rotation_model[Shared].prng
          /\ (thread[t].pc = "loaded" /\ thread'[t].pc = "done") =>
                 /\ rotation_model'[Shared].prng = advance(thread[t].prng)
                 /\ rotation_model'[Shared].prng # thread[t].prng]_vars

\* two threads hold the same generator state, and one has already written
C20_Witness ==
    /\ thread[1].pc = "done" /\ thread[2].pc = "done"
    /\ thread[1].prng = thread[2].prng
    /\ thread[1].angle = thread[2].angle
    /\ thread[1].rotated = thread[2].rotated
    /\ rotation_model[Shared].max_rotation_error > 0

\* C19: threads that query one constructed boundary concurrently, without
\* synchronisation, each get the result the query returns when run alone on the
\* boundary as constructed, and no query changes the state of the boundary.
C19_ConcurrentQueriesAsIfAlone ==
    \A t \in Threads :
        (thread[t].pc = "done" /\ thread[t].op \in {"point", "bbox", "ray"}) =>
            thread[t].result = QueryResult(ConfigurationSpace_create(Shape), thread[t].op,
                                           thread[t].point, thread[t].vector)

\* C21: when the construction of the configuration space fails,
\* generateConfigurationGeometry returns nullopt and does not call the robot's
\* setConfigurationEnvironment: the configuration space the robot held before the
\* call is the one it holds after it, and the robot never holds a partial boundary.
C21_FailedGenerationLeavesRobot ==
    [][(call.op = "idle" /\ call'.op = "generate") =>
          /\ constructConfigurationSpace(Wall, getRadius(robot), call'.emitted) = NONE =>
                 /\ ~call'.generated
                 /\ robot' = robot
          /\ robot'.configuration_environment # NONE =>
                 \E points \in Enclosures, emitted \in Orientations :
                     /\ WallSpace_create(points) # NONE
                     /\ robot'.configuration_environment =
                            constructConfigurationSpace(points, getRadius(robot), emitted)
                     /\ Len(Value(robot'.configuration_environment).configuration_shape) >= 3]_vars

\* a failed generation for a robot that was holding a configuration space
C21_Witness ==
    /\ call.op = "generate"
    /\ ~call.generated
    /\ constructConfigurationSpace(Wall, getRadius(robot), call.emitted) = NONE
    /\ robot.configuration_environment # NONE

(***************************************************************************)
(* Enclosures and their insets.                                            *)
(***************************************************************************)
XMin(poly) == SetMin({poly[i][1] : i \in 1..Len(poly)})

XMax(poly) == SetMax({poly[i][1] : i \in 1..Len(poly)})

YMin(poly) == SetMin({poly[i][2] : i \in 1..Len(poly)})

YMax(poly) == SetMax({poly[i][2] : i \in 1..Len(poly)})

\* the enclosure is a rectangle with sides parallel to the axes
IsRectangle(poly) ==
    /\ Len(poly) = 4
    /\ XMin(poly) < XMax(poly) /\ YMin(poly) < YMax(poly)
    /\ {poly[i] : i \in 1..4} = {XMin(poly), XMax(poly)} \X {YMin(poly), YMax(poly)}

Width(poly) == XMax(poly) - XMin(poly)

Height(poly) == YMax(poly) - YMin(poly)

\* the vertices at which the enclosure turns away from its interior
ReflexVertices(poly) ==
    LET n == Len(poly)
        s == Sign(SumArea(poly, 1))
        prev(i) == poly[IF i = 1 THEN n ELSE i - 1]
        next(i) == poly[IF i = n THEN 1 ELSE i + 1]
    IN  {poly[i] : i \in {j \in 1..n :
                             Cross(Sub(poly[j], prev(j)), Sub(next(j), poly[j])) * s < 0}}

ArcsOf(shape) == {i \in 1..Len(shape) : shape[i].kind = "arc"}

\* C22: for a rectangular enclosure of width W and height H and a robot radius r,
\* construction fails whenever W <= 2r or H <= 2r, the tight case (a side of
\* exactly 2r) and the too-small case included.
C22_TightRectangleFails ==
    (/\ call.op = "construct"
     /\ IsRectangle(Wall)
     /\ Width(Wall) <= 2 * robot_radius \/ Height(Wall) <= 2 * robot_radius) =>
        configuration_space = NONE

\* the rectangle 6 by 2 with radius 1: the height is exactly the diameter
C22_Witness ==
    /\ call.op = "construct"
    /\ IsRectangle(Wall)
    /\ Width(Wall) > 2 * robot_radius
    /\ Height(Wall) = 2 * robot_radius
    /\ configuration_space = NONE

\* C23: for a rectangular enclosure whose sides are both greater than 2r,
\* construction succeeds and the boundary is the rectangle inset by r on every
\* side: four straight segments on the four inset lines, four sharp corners, no arc.
C23_RectangleInsetIsRectangle ==
    (/\ call.op = "construct"
     /\ IsRectangle(Wall)
     /\ Width(Wall) > 2 * robot_radius /\ Height(Wall) > 2 * robot_radius) =>
        /\ configuration_space # NONE
        /\ LET x0 == XMin(Wall) + robot_radius
               x1 == XMax(Wall) - robot_radius
               y0 == YMin(Wall) + robot_radius
               y1 == YMax(Wall) - robot_radius
           IN  /\ Len(Shape) = 4
               /\ ArcsOf(Shape) = {}
               /\ {Shape[i].a : i \in 1..4} = {x0, x1} \X {y0, y1}
               /\ \A i \in 1..4 :
                      /\ Shape[i].b = Shape[(i % 4) + 1].a
                      /\ \/ Shape[i].a[1] = Shape[i].b[1] /\ Shape[i].a[1] \in {x0, x1}
                         \/ Shape[i].a[2] = Shape[i].b[2] /\ Shape[i].a[2] \in {y0, y1}
               /\ \A p \in {x0, x1} \X {y0, y1} :
                      intersection_point(Value(configuration_space), p) = Some(Pt(p))

\* the square of side 6 given clockwise, with radius 1
C23_Witness ==
    /\ call.op = "construct"
    /\ IsRectangle(Wall)
    /\ orientation_2(Wall) = CLOCKWISE
    /\ robot_radius = 1
    /\ configuration_space # NONE
    /\ {Shape[i].a : i \in 1..Len(Shape)} = {1, 5} \X {1, 5}

FitPoints == 0..(4 * (MaxCoord + 2))

Apart(a, b, c, d, dist) ==
    /\ ClearOfSegment(a[1], a[2], 1, dist, c, d) > 0
    /\ ClearOfSegment(b[1], b[2], 1, dist, c, d) > 0
    /\ ClearOfSegment(c[1], c[2], 1, dist, a, b) > 0
    /\ ClearOfSegment(d[1], d[2], 1, dist, a, b) > 0

Fits(poly, r) ==
    LET n == Len(poly)
        E == Edges(poly)
        adjacent(i, j) == j = i + 1 \/ (i = 1 /\ j = n)
    IN  /\ \E X \in FitPoints, Y \in FitPoints :
               /\ InEnclosure(X, Y, 4, poly)
               /\ \A i \in 1..n : ClearOfSegment(X, Y, 4, r, E[i][1], E[i][2]) > 0
        /\ \A i \in 1..n : \A j \in (i + 1)..n :
               ~adjacent(i, j) => Apart(E[i][1], E[i][2], E[j][1], E[j][2], 2 * r)

\* the segment e of the boundary is the wall from a to b moved inward by exactly r
OffsetOf(e, a, b, r) ==
    /\ Cross(Sub(e.b, e.a), Sub(b, a)) = 0
    /\ Cross(Sub(e.a, a), Sub(b, a)) * Cross(Sub(e.a, a), Sub(b, a))
           = r * r * Dot(Sub(b, a), Sub(b, a))

\* C25: for a simple, non-degenerate enclosure and a radius small enough to fit,
\* construction succeeds and the result is one simple closed curve in which every
\* segment, and so every vertex, lies at exactly the robot radius from the enclosure
\* edge it is the offset of, and every arc is centred at an enclosure vertex with
\* the robot radius.
C25_InsetAtExactlyRadius ==
    (call.op = "construct" /\ Fits(Wall, robot_radius)) =>
        /\ configuration_space # NONE
        /\ Len(approximated_inset_2(Wall, robot_radius)) = 1
        /\ \A i \in 1..Len(Shape) : Shape[i].b = Shape[(i % Len(Shape)) + 1].a
        /\ \A i, j \in 1..Len(Shape) : Shape[i].a = Shape[j].a => i = j
        /\ \A i \in 1..Len(Shape) :
               IF Shape[i].kind = "arc"
               THEN /\ Shape[i].r = robot_radius
                    /\ \E k \in 1..Len(Wall) : Wall[k] = Shape[i].c
               ELSE \E k \in 1..Len(Wall) :
                        OffsetOf(Shape[i], Edges(Wall)[k][1], Edges(Wall)[k][2], robot_radius)

\* the vertex sequence is a simple polygon: no vertex occurs twice, consecutive
\* edges share their common vertex only, and other edges share no point
SimplePolygon(points) ==
    LET n == Len(points)
        E == Edges(points)
        next(i) == IF i = n THEN 1 ELSE i + 1
    IN  /\ \A i, j \in 1..n : points[i] = points[j] => i = j
        /\ \A i, j \in 1..n :
               i # j =>
                   IF j = next(i)
                   THEN ~OnSegInt(E[j][2], E[i][1], E[i][2]) /\ ~OnSegInt(E[i][1], E[j][1], E[j][2])
                   ELSE IF i = next(j) THEN TRUE
                   ELSE ~SegsIntersect(E[i][1], E[i][2], E[j][1], E[j][2])

AllCollinear(points) ==
    \A i, j, k \in 1..Len(points) :
        Cross(Sub(points[j], points[i]), Sub(points[k], points[i])) = 0

\* C26: the enclosure factory returns an enclosure exactly when the vertex sequence
\* has at least three vertices, is a simple polygon (no self-intersection, no
\* repeated vertex, vertices in boundary order) and is not collinear; it returns
\* nullopt in every other case, and the enclosure returned is the sequence given.
C26_CreateIffSimplePolygon ==
    call.op = "create" =>
        /\ wall_space # NONE <=>
               (/\ Len(call.enclosure) >= 3
                /\ SimplePolygon(call.enclosure)
                /\ ~AllCollinear(call.enclosure))
        /\ wall_space # NONE => wall_space = Some(call.enclosure)

\* four vertices out of boundary order: the edges cross
C26_Witness ==
    /\ call.op = "create"
    /\ Len(call.enclosure) = 4
    /\ ~AllCollinear(call.enclosure)
    /\ \A i, j \in 1..4 : call.enclosure[i] = call.enclosure[j] => i = j
    /\ ~SimplePolygon(call.enclosure)
    /\ wall_space = NONE

\* a thread runs the statement that assigns the cache, or the rest of its query
FillsBBox(t) == thread[t].pc = "bbox_fill" /\ thread'[t].pc # "bbox_fill"

FillsSet(t) == thread[t].pc = "set_new" /\ thread'[t].pc # "set_new"

UsesCaches(t) == thread[t].pc = "use" /\ thread'[t].pc = "done"

\* C27: the bounding box and the polygon set of a boundary are each computed at
\* most once, on the first query that needs them (a cache is assigned only while
\* it is empty), every later query reuses the cached value, and the cached value
\* a query works with equals the value derived from the unchanged boundary shape.
C27_CachesComputedOnce ==
    [][(configuration_space # NONE /\ configuration_space' # NONE /\ call'.op # "construct") =>
          LET cs == Value(configuration_space)
              after == Value(configuration_space')
              shape == cs.configuration_shape
          IN  /\ after.configuration_shape = shape
              /\ \A t \in Threads :
                     /\ FillsBBox(t) => cs.bounding_box = NONE
                     /\ FillsSet(t) => cs.polygon_set = NONE
                     /\ UsesCaches(t) =>
                            /\ thread[t].op # "bbox" => cs.polygon_set = Some(shape)
                            /\ thread[t].op # "point" => cs.bounding_box = Some(bbox_of(shape))
              /\ thread' = thread =>
                     /\ cs.bounding_box # NONE => after.bounding_box = cs.bounding_box
                     /\ cs.polygon_set # NONE => after.polygon_set = cs.polygon_set
                     /\ after.bounding_box # NONE => after.bounding_box = Some(bbox_of(shape))
                     /\ after.polygon_set # NONE => after.polygon_set = Some(shape)]_vars

\* C28: every boundary returned by a successful construction has counterclockwise
\* orientation, whatever the orientation of the curve the inset operation
\* produced: either orientation of the produced curve gives the same boundary.
C28_BoundaryCounterclockwise ==
    (call.op = "construct" /\ configuration_space # NONE) =>
        /\ orientation(Value(configuration_space)) = COUNTERCLOCKWISE
        /\ \A emitted \in Orientations :
               LET constructed == constructConfigurationSpace(Wall, robot_radius, emitted)
               IN  /\ constructed # NONE
                   /\ orientation(Value(constructed)) = COUNTERCLOCKWISE
                   /\ Value(constructed).configuration_shape = Shape

\* the inset operation produced a clockwise curve with an arc
C28_Witness ==
    /\ call.op = "construct"
    /\ call.emitted = CLOCKWISE
    /\ configuration_space # NONE
    /\ ArcsOf(Shape) # {}
    /\ ShapeOrientation(emitted_inset_2(Wall, robot_radius, call.emitted)[1]) = CLOCKWISE
    /\ orientation(Value(configuration_space)) = COUNTERCLOCKWISE

(***************************************************************************)
(* Computed points and the boundary.  A computed point p has the            *)
(* coordinates (p.xa + p.xb*sqrt(p.root))/p.den, (p.ya + p.yb*sqrt(p.root))/p.den. *)
(***************************************************************************)
\* the sign of the dot product of p - c with the integer vector u
DotSign(p, c, u) ==
    SignRoot((p.xa - c[1] * p.den) * u[1] + (p.ya - c[2] * p.den) * u[2],
             p.xb * u[1] + p.yb * u[2], p.root)

\* the sign of the cross product of p - c with the integer vector u
CrossSign(p, c, u) ==
    SignRoot((p.xa - c[1] * p.den) * u[2] - (p.ya - c[2] * p.den) * u[1],
             p.xb * u[2] - p.yb * u[1], p.root)

\* the sign of |p - c|^2 - r^2
CircleSign(p, c, r) ==
    LET X == p.xa - c[1] * p.den
        Y == p.ya - c[2] * p.den
    IN  SignRoot(X * X + Y * Y + (p.xb * p.xb + p.yb * p.yb) * p.root - r * r * p.den * p.den,
                 2 * (X * p.xb + Y * p.yb), p.root)

\* the computed point p lies on the curve e
OnCurvePt(p, e) ==
    IF e.kind = "seg"
    THEN /\ CrossSign(p, e.a, Sub(e.b, e.a)) = 0
         /\ DotSign(p, e.a, Sub(e.b, e.a)) >= 0
         /\ DotSign(p, e.b, Sub(e.a, e.b)) >= 0
    ELSE /\ CircleSign(p, e.c, e.r) = 0
         /\ DotSign(p, e.c, Sub(e.a, e.c)) >= 0
         /\ DotSign(p, e.c, Sub(e.b, e.c)) >= 0

OnBoundaryPt(p) == \E i \in 1..Len(Shape) : OnCurvePt(p, Shape[i])

IsGridPoint(p) == p.den = 1 /\ p.root = 0 /\ <<p.xa, p.ya>> \in Grid

C30_QueriesLeaveBoundary ==
    [][(/\ call.op = "idle"
        /\ call'.op \in {"point", "ray", "first"}
        /\ configuration_space # NONE) =>
           LET cs == Value(configuration_space)
               after == Value(configuration_space')
               fresh == ConfigurationSpace_create(cs.configuration_shape)
               ray == Ray2D(call'.point, call'.vector)
           IN  /\ configuration_space' # NONE
               /\ after.configuration_shape = cs.configuration_shape
               /\ cs.polygon_set # NONE => after.polygon_set = cs.polygon_set
               /\ after.polygon_set = Some(cs.configuration_shape)
               /\ call'.op = "point" =>
                      call'.result = intersection_point(fresh, call'.point)
               /\ call'.op = "ray" =>
                      /\ call'.points = intersections(fresh, ray)
                      /\ call'.count = intersection_count(fresh, ray)
               /\ call'.op = "first" =>
                      call'.result \in first_intersection(fresh, ray)]_vars

\* a ray query that met the boundary twice and left the cached set as derived
C30_Witness ==
    /\ call.op = "ray"
    /\ call.count >= 2
    /\ configuration_space # NONE
    /\ Value(configuration_space).polygon_set = Some(Value(configuration_space).configuration_shape)
    /\ Value(configuration_space).bounding_box # NONE


=============================================================================
